---------------------------- MODULE Spec2Model ----------------------------
(***************************************************************************)
(* Model of the TKU listing monitor: the page parser (smart_parser.py),    *)
(* the paginator (paginator.py), the new-record detector (detector.py),    *)
(* the Excel record store (excel_manager.py) and the per-site pipeline     *)
(* monitor_site (main.py).                                                 *)
(*                                                                         *)
(* Python values are modelled as follows.  None and a missing dict key are *)
(* both the value None (dict.get makes them indistinguishable wherever the *)
(* code reads them).  A float NaN, which pandas yields for an empty cell,  *)
(* is the value NaN: truthy and different from every string.               *)
(* The record store keeps the columns 活動名稱 and 起日; they are the       *)
(* fields name and start of the persisted records of this module, and      *)
(* 主辦單位 is the field org.                                               *)
(***************************************************************************)
EXTENDS Integers, Sequences, FiniteSets, TLC

VARIABLES
    call,           \* the function under examination and its arguments
    ret,            \* [done |-> BOOLEAN, val |-> what the function returned]
    site,           \* monitor_site: the site's configuration and its pages
    store,          \* the Excel file of the site: [exists, rows]
    run,            \* which run of monitor_site this is (1 or 2)
    pc,             \* position of monitor_site
    pages_total,    \* auto_fetch_all_pages: total_pages = min(detected pages, max_pages)
    page_i,         \* auto_fetch_all_pages: the next page URL to fetch
    all_data,       \* auto_fetch_all_pages: records of the pages parsed so far
    list_data,      \* monitor_site: the records of the listing stage
    new_items,      \* monitor_site: what detect_new_data returned
    item_i,         \* monitor_site: the next new item to enrich
    detailed_data,  \* monitor_site: the detail records fetched so far
    io,             \* per run: page fetches, store reads, detail fetches, store writes
    attempt,        \* fetch_detail_page: attempts already made for the current item
    pool            \* main: the sites, their files, the workers and main's all_data

harness_vars == <<call, ret>>
pipeline_vars == <<site, store, run, pc, pages_total, page_i, all_data, list_data,
                   new_items, item_i, detailed_data, io, attempt, pool>>
vars == <<call, ret, site, store, run, pc, pages_total, page_i, all_data, list_data,
          new_items, item_i, detailed_data, io, attempt, pool>>

None == "None"
NaN == "NaN"

\* Python truthiness of the values that occur here (None and '' are falsy,
\* every other string and NaN are truthy).
Truthy(v) == v \notin {None, ""}

\* dict.get(key, default) on a field that may be missing
GetOr(v, default) == IF v = None THEN default ELSE v

Max2(a, b) == IF a >= b THEN a ELSE b
Min2(a, b) == IF a <= b THEN a ELSE b

\* all sequences over S of length at most n
SeqUpTo(S, n) == UNION {[1..k -> S] : k \in 0..n}

NotCalled == [done |-> FALSE, val |-> <<>>]
Returned(v) == [done |-> TRUE, val |-> v]

-----------------------------------------------------------------------------
(* paginator.py: Paginator._deduplicate_data                               *)

\* the variant that prefers the content hash over the nid
IdentifierHashFirst(item) == IF Truthy(item.hash) THEN item.hash ELSE item.nid

\* identifier = item.get('nid') or item.get('hash')
Identifier(item) == IF Truthy(item.nid) THEN item.nid ELSE item.hash

RECURSIVE DedupFrom(_, _, _, _, _)
DedupFrom(data_list, i, seen_nids, seen_hashes, unique_data) ==
    IF i > Len(data_list) THEN unique_data
    ELSE LET item == data_list[i]
             identifier == Identifier(item)
         IN IF Truthy(identifier) /\ identifier \notin seen_nids
                                  /\ identifier \notin seen_hashes
            THEN DedupFrom(data_list, i + 1, seen_nids \cup {item.nid},
                           seen_hashes \cup {item.hash}, Append(unique_data, item))
            ELSE DedupFrom(data_list, i + 1, seen_nids, seen_hashes, unique_data)

DeduplicateData(data_list) == DedupFrom(data_list, 1, {}, {}, <<>>)

-----------------------------------------------------------------------------
(* paginator.py: Paginator._generate_page_urls                             *)
(*                                                                         *)
(* A URL is [base, query, fragment]: base stands for scheme://netloc/path, *)
(* query is the raw query string as a sequence of [k, v] pairs (split on   *)
(* '&' and '='), with the values still percent-encoded.                    *)

\* urllib.parse.unquote on the raw values that occur in the examined URLs
Unquote(raw) == IF raw = "%58YZ" THEN "XYZ" ELSE raw

\* urllib.parse.quote_plus on the decoded values that occur (all are safe)
QuotePlus(v) == v

\* str(page)
RECURSIVE ToStr(_)
ToStr(n) ==
    LET digit == <<"0", "1", "2", "3", "4", "5", "6", "7", "8", "9">>
    IN IF n < 10 THEN digit[n + 1] ELSE ToStr(n \div 10) \o digit[(n % 10) + 1]

\* parse_qs(query).get(key, [None])[0]: blank values are dropped by parse_qs
\* (keep_blank_values is False), the first remaining value is taken, decoded
FirstQueryValue(query, key) ==
    LET hits == {i \in 1..Len(query) : query[i].k = key /\ query[i].v # ""}
    IN IF hits = {} THEN None
       ELSE Unquote(query[CHOOSE i \in hits : \A j \in hits : i <= j].v)

\* page_param = (pagination_config.get('page_param', 'pg') if pagination_config
\*               else pagination_info.get('page_param', 'pg'))
PageParam(pagination_config, pagination_info) ==
    IF pagination_config.kind = "dict"
    THEN GetOr(pagination_config.page_param, "pg")
    ELSE GetOr(pagination_info.page_param, "pg")

\* the variant that forgets spid on the later pages
PageQueryDropsSpid(page, spid) ==
    IF page = 1 /\ Truthy(spid)
    THEN <<[k |-> "spid", v |-> QuotePlus(spid)]>>
    ELSE <<[k |-> "pg", v |-> ToStr(page)]>>

\* page_query of one page, as urlencode(page_query, doseq=True) writes it: the
\* dict in insertion order
PageQuery(page, spid) ==
    IF page = 1 /\ Truthy(spid)
    THEN <<[k |-> "spid", v |-> QuotePlus(spid)]>>
    ELSE <<[k |-> "pg", v |-> ToStr(page)]>>
            \o (IF Truthy(spid) THEN <<[k |-> "spid", v |-> QuotePlus(spid)]>> ELSE <<>>)

\* range(1, total_pages + 1)
PageRange(total_pages) == 1..total_pages

GeneratePageUrls(base_url, total_pages, pagination_info, pagination_config) ==
    LET base_path == base_url.base
        spid == FirstQueryValue(base_url.query, "spid")
        page_param == PageParam(pagination_config, pagination_info)
        pages == PageRange(total_pages)
    IN [page \in pages |-> [base |-> base_path, query |-> PageQuery(page, spid)]]

-----------------------------------------------------------------------------
(* smart_parser.py: SmartParser._extract_total_pages_from_pagination       *)
(*                                                                         *)
(* Text is a sequence of tokens: "sp" is one whitespace character, a digit *)
(* is itself, "gong" is 共, "ye" is 頁, "total", "last", "next" are those   *)
(* words (next also stands for 下一頁) and "w" is any other word.           *)
(* A page is [anchors, container]: the <a> elements in document order,     *)
(* each with its href (None when it has none) and its text, and the first  *)
(* element a pagination selector matches (found, text).                    *)

DigitToks == {"0", "1", "2", "3", "4", "5", "6", "7", "8", "9"}

DigitVal(tok) == CHOOSE d \in 0..9 : ToStr(d) = tok

\* the index after the longest run of tokens of the set toks that starts at i
RECURSIVE RunEnd(_, _, _)
RunEnd(text, i, toks) ==
    IF i <= Len(text) /\ text[i] \in toks THEN RunEnd(text, i + 1, toks) ELSE i

\* int() of the digits text[i..j-1]
RECURSIVE IntOf(_, _, _)
IntOf(text, i, j) ==
    IF j <= i THEN 0 ELSE IntOf(text, i, j - 1) * 10 + DigitVal(text[j - 1])

TokAt(text, i) == IF i <= Len(text) THEN text[i] ELSE "eot"

NoMatch == [ok |-> FALSE, nums |-> {}, end |-> 0]

\* 共?(\d+)\s*頁 tried at position i
MatchCountOfPages(text, i) ==
    LET s == IF TokAt(text, i) = "gong" THEN i + 1 ELSE i
        e == RunEnd(text, s, DigitToks)
        k == RunEnd(text, e, {"sp"})
    IN IF e > s /\ TokAt(text, k) = "ye"
       THEN [ok |-> TRUE, nums |-> {IntOf(text, s, e)}, end |-> k + 1]
       ELSE NoMatch

\* (\d+)\s*/\s*(\d+)\s*頁 tried at position i
MatchPageOfPages(text, i) ==
    LET e1 == RunEnd(text, i, DigitToks)
        k1 == RunEnd(text, e1, {"sp"})
        s2 == RunEnd(text, k1 + 1, {"sp"})
        e2 == RunEnd(text, s2, DigitToks)
        k2 == RunEnd(text, e2, {"sp"})
    IN IF e1 > i /\ TokAt(text, k1) = "/" /\ e2 > s2 /\ TokAt(text, k2) = "ye"
       THEN [ok |-> TRUE, nums |-> {IntOf(text, i, e1), IntOf(text, s2, e2)},
             end |-> k2 + 1]
       ELSE NoMatch

\* total\s+(\d+) tried at position i
MatchTotal(text, i) ==
    LET s == RunEnd(text, i + 1, {"sp"})
        e == RunEnd(text, s, DigitToks)
    IN IF TokAt(text, i) = "total" /\ s > i + 1 /\ e > s
       THEN [ok |-> TRUE, nums |-> {IntOf(text, s, e)}, end |-> e]
       ELSE NoMatch

\* re.findall(r'共?(\d+)\s*頁|(\d+)\s*/\s*(\d+)\s*頁|total\s+(\d+)', text) from
\* position i on: the numbers of every non-overlapping match, leftmost first,
\* the alternatives tried in their order
RECURSIVE FindallPageCounts(_, _)
FindallPageCounts(text, i) ==
    IF i > Len(text) THEN {}
    ELSE LET m1 == MatchCountOfPages(text, i)
             m2 == MatchPageOfPages(text, i)
             m3 == MatchTotal(text, i)
             m == IF m1.ok THEN m1 ELSE IF m2.ok THEN m2 ELSE m3
         IN IF m.ok THEN m.nums \cup FindallPageCounts(text, m.end)
            ELSE FindallPageCounts(text, i + 1)

\* str.strip()
RECURSIVE Strip(_)
Strip(text) ==
    IF text = <<>> THEN text
    ELSE IF Head(text) = "sp" THEN Strip(Tail(text))
    ELSE IF text[Len(text)] = "sp" THEN Strip(SubSeq(text, 1, Len(text) - 1))
    ELSE text

\* str.isdigit()
IsDigitText(text) == text # <<>> /\ \A i \in 1..Len(text) : text[i] \in DigitToks

\* an element without an href, and a URL without a page parameter
NoHref == [k |-> None, n |-> 0]

\* re.findall(r'(?:pg=|page=)(\d+)', href): an href is None or one parameter [k, n]
HrefPageNumbers(href) == IF href.k \in {"pg", "page"} THEN {href.n} ELSE {}

\* re.compile(r'最後|last|尾頁|more|\d+$') searched in an anchor's string
LastPagePattern(text) ==
    \/ \E i \in 1..Len(text) : text[i] = "last"
    \/ text # <<>> /\ text[Len(text)] \in DigitToks

\* re.compile(r'下一頁|next') searched in an anchor's string
NextPagePattern(text) == \E i \in 1..Len(text) : text[i] = "next"

SetMax(S, floor) == IF S = {} THEN floor ELSE CHOOSE x \in S : \A y \in S : y <= x

\* signal 1: pg= / page= numbers in the hyperlinks that have an href
LinkPageNumbers(page) ==
    UNION {HrefPageNumbers(page.anchors[i].href) : i \in 1..Len(page.anchors)}

\* signal 2: counts in the text of the pagination container, if one was found
ContainerPageNumbers(page) ==
    IF page.container.found THEN FindallPageCounts(page.container.text, 1) ELSE {}

\* signal 3: last-page anchors whose stripped text is a number
LastLinkPageNumbers(page) ==
    {IntOf(Strip(page.anchors[i].text), 1, Len(Strip(page.anchors[i].text)) + 1) :
        i \in {j \in 1..Len(page.anchors) :
                  /\ LastPagePattern(page.anchors[j].text)
                  /\ IsDigitText(Strip(page.anchors[j].text))}}

HasNextPage(page) ==
    \E i \in 1..Len(page.anchors) : NextPagePattern(page.anchors[i].text)

\* the variant that assumes a second page only when no anchor is numbered
AssumeSecondPageUnlessNumbered(page, max_page) ==
    IF HasNextPage(page) /\ LinkPageNumbers(page) = {} THEN 2 ELSE max_page

\* if next_page and max_page == 1: max_page = 2
AssumeSecondPage(page, max_page) ==
    IF HasNextPage(page) /\ max_page = 1 THEN 2 ELSE max_page

ExtractTotalPages(page) ==
    LET from_links == SetMax(LinkPageNumbers(page) \cup {1}, 1)
        from_container == SetMax(ContainerPageNumbers(page) \cup {from_links}, 1)
        from_last == SetMax(LastLinkPageNumbers(page) \cup {from_container}, 1)
        max_page == AssumeSecondPage(page, from_last)
    IN Max2(1, max_page)

\* A fetched page as detect_pagination reads it: the og:url meta tag
\* [present, has_content, content], the canonical link [present, href], the
\* texts of the elements the current-page indicators select, in the order of
\* the indicators, and the anchors and pagination container of the page.  A
\* URL is read as an href is: its page parameter [k, n], k None without one.

\* (soup.find('meta', og:url) or soup.find('link', canonical)).get('content'),
\* '' without either element: [is_str, url], is_str FALSE for None.  A link
\* element has no content attribute.
CurrentUrl(soup) ==
    IF soup.og_url.present
    THEN [is_str |-> soup.og_url.has_content, url |-> soup.og_url.content]
    ELSE IF soup.canonical.present THEN [is_str |-> FALSE, url |-> NoHref]
    ELSE [is_str |-> TRUE, url |-> NoHref]

\* the loop over current_indicators: int() of the first stripped text that is
\* numeric, else the final return 1
RECURSIVE IndicatorPage(_)
IndicatorPage(indicators) ==
    IF indicators = <<>> THEN 1
    ELSE IF IsDigitText(Strip(Head(indicators)))
    THEN IntOf(Strip(Head(indicators)), 1, Len(Strip(Head(indicators))) + 1)
    ELSE IndicatorPage(Tail(indicators))

\* _extract_current_page: re.search on None raises TypeError
ExtractCurrentPage(soup, current_url) ==
    IF ~current_url.is_str THEN [raised |-> "TypeError", val |-> 0]
    ELSE IF HrefPageNumbers(current_url.url) # {}
    THEN [raised |-> None, val |-> current_url.url.n]
    ELSE [raised |-> None, val |-> IndicatorPage(soup.indicators)]

\* _get_base_url
GetBaseUrl(soup) ==
    IF soup.canonical.present /\ soup.canonical.href # NoHref THEN soup.canonical.href
    ELSE IF soup.og_url.present /\ soup.og_url.has_content /\ soup.og_url.content # NoHref
    THEN soup.og_url.content
    ELSE LET links == {i \in 1..Len(soup.page.anchors) :
                          soup.page.anchors[i].href # NoHref}
         IN IF links # {} THEN soup.page.anchors[CHOOSE i \in links : \A j \in links : i <= j].href
            ELSE NoHref

\* pagination_info as returned: the defaults 1 and 1 replaced by a total above
\* 1 and by a truthy current page
PaginationInfo(soup, total_pages_, current_page) ==
    [raised |-> None,
     total_pages |-> IF total_pages_ > 1 THEN total_pages_ ELSE 1,
     current_page |-> IF current_page # 0 THEN current_page ELSE 1,
     page_pattern |-> "pg={page}",
     base_url |-> GetBaseUrl(soup),
     pagination_selector |-> soup.page.container.found]

\* what detect_pagination gives for the current page found
DetectPaginationWith(soup, current) ==
    IF current.raised # None
    THEN [raised |-> current.raised]
    ELSE PaginationInfo(soup, ExtractTotalPages(soup.page), current.val)

\* detect_pagination: the record returned, or the exception it raises
DetectPagination(soup) ==
    DetectPaginationWith(soup, ExtractCurrentPage(soup, CurrentUrl(soup)))

-----------------------------------------------------------------------------
(* smart_parser.py: SmartParser.parse and the row extractors               *)
(*                                                                         *)
(* An element's text is a token sequence as above; a date token such as    *)
(* "2024-05-01" stands for its ten characters, a title word such as        *)
(* "Event X" for its seven.  Extracted records are [title, link, date,     *)
(* nid, hash] with None for a key the extractor did not set; no extractor  *)
(* sets the key 'hash'.                                                    *)

DateToks == {"2024-05-01", "2024-05-02"}

\* len() of one token's characters
TokWidth(tok) ==
    IF tok \in DateToks THEN 10
    ELSE IF tok \in {"Event X", "Event Y"} THEN 7
    ELSE IF tok = "10:00" THEN 5
    ELSE 1

RECURSIVE TextLen(_)
TextLen(text) == IF text = <<>> THEN 0 ELSE TokWidth(Head(text)) + TextLen(Tail(text))

\* the Python string a token sequence stands for
RECURSIVE Str(_)
Str(text) ==
    IF text = <<>> THEN ""
    ELSE (IF Head(text) = "sp" THEN " " ELSE Head(text)) \o Str(Tail(text))

\* text[:n], cutting at a token boundary
RECURSIVE Truncate(_, _)
Truncate(text, n) ==
    IF text = <<>> \/ TokWidth(Head(text)) > n THEN <<>>
    ELSE <<Head(text)>> \o Truncate(Tail(text), n - TokWidth(Head(text)))

\* the variant of get_text that does not strip
GetTextRaw(text) == text

\* element.get_text(strip=True) of an element with one text node
GetTextStrip(text) == Strip(text)

\* container.get_text(strip=True): every text node stripped, the empty ones
\* skipped, the rest joined
RECURSIVE ContainerText(_)
ContainerText(elems) ==
    IF elems = <<>> THEN <<>>
    ELSE GetTextStrip(Head(elems).text) \o ContainerText(Tail(elems))

\* re.search(r'\d{4}-\d{2}-\d{2}', text): the first date in the text, else None
RECURSIVE SearchIsoDate(_)
SearchIsoDate(text) ==
    IF text = <<>> THEN None
    ELSE IF Head(text) \in DateToks THEN Head(text)
    ELSE SearchIsoDate(Tail(text))

\* re.match(r'\d{4}-\d{2}-\d{2}', text): the text starts with a date
MatchIsoDate(text) == text # <<>> /\ Head(text) \in DateToks

\* re.search(r'nid=([A-F0-9]+)', link) on the links that occur: group(1), or
\* None when there is no match
TableNid(link) ==
    IF link \in {"Dtl.aspx?nid=AB12", "video.aspx?nid=AB12"} THEN "AB12"
    ELSE IF link = "Dtl.aspx?nid=CD34" THEN "CD34"
    ELSE None

\* re.search(r'id|nid=([A-F0-9]+)', href) on the links that occur: whether it
\* matches, and group(1).  'id' alone matches wherever it occurs first, and
\* then group(1) is None.
GeneralNidMatches(href) ==
    href \in {"Dtl.aspx?nid=AB12", "Dtl.aspx?nid=CD34", "video.aspx?nid=AB12",
              "Dtl.aspx?id=7"}
GeneralNid(href) ==
    IF href = "Dtl.aspx?nid=AB12" THEN "AB12"
    ELSE IF href = "Dtl.aspx?nid=CD34" THEN "CD34"
    ELSE None

NewRecord == [title |-> None, link |-> None, date |-> None, nid |-> None, hash |-> None]

\* any(row.values())
AnyValue(row) ==
    Truthy(row.title) \/ Truthy(row.link) \/ Truthy(row.date) \/ Truthy(row.nid)

\* _extract_table_row: <<record>>, or <<>> for None
\* the first cell's link: title, link and nid
TitleLinkData(title_link, link) ==
    IF title_link.present
    THEN [NewRecord EXCEPT !.title = Str(GetTextStrip(title_link.text)),
                           !.link = link,
                           !.nid = TableNid(link)]
    ELSE NewRecord

\* the date of the first cell's hidden span
HiddenSpanDate(date_span) ==
    IF date_span.present THEN SearchIsoDate(GetTextStrip(date_span.text)) ELSE None

\* row_data['date'] = date_match.group(0) when the span holds a date
WithSpanDate(row_data, span_date) ==
    IF span_date # None THEN [row_data EXCEPT !.date = span_date] ELSE row_data

\* row_data['date'] = date_cell when the second cell starts with a date
WithCellDate(row_data, date_cell) ==
    IF date_cell # <<>> /\ MatchIsoDate(date_cell)
    THEN [row_data EXCEPT !.date = Str(date_cell)]
    ELSE row_data

\* return row if row.get('title') else None
RowOrNone(row) == IF Truthy(row.title) THEN <<row>> ELSE <<>>

\* the cells found by row.find_all(['td', 'th']), not empty
ExtractTableCells(cells) ==
    RowOrNone(
        WithCellDate(
            WithSpanDate(TitleLinkData(cells[1].a, GetOr(cells[1].a.href, "")),
                         HiddenSpanDate(cells[1].hidden)),
            IF Len(cells) > 1 THEN Strip(GetTextStrip(cells[2].text)) ELSE <<>>))

\* _extract_table_row: <<record>>, or <<>> for None
ExtractTableRow(row) ==
    IF row.cells = <<>> THEN <<>> ELSE ExtractTableCells(row.cells)

\* if row_data and any(row_data.values()): the record is appended
KeepRow(row_data) ==
    IF row_data # <<>> /\ AnyValue(row_data[1]) THEN row_data ELSE <<>>

\* _parse_table_mode
RECURSIVE ParseTableMode(_)
ParseTableMode(containers) ==
    IF containers = <<>> THEN <<>>
    ELSE KeepRow(IF Head(containers).name # "tr" THEN <<>>
                 ELSE ExtractTableRow(Head(containers)))
            \o ParseTableMode(Tail(containers))

\* _get_field_patterns: the selector groups of each field, in declared order
FieldNames == <<"title", "link", "date">>

SelectorGroups(field_name) ==
    IF field_name = "title"
    THEN << <<"h1", "h2", "h3", "h4", "h5">>,
            <<".title", ".headline", ".name", "[class*=title]", "[class*=head]",
              "[class*=news]">>,
            <<"a", "strong", "[id*=title]", "[id*=news]">> >>
    ELSE IF field_name = "link"
    THEN << <<"a[href]", "a", "[href]">> >>
    ELSE << <<"time", ".date", ".published", ".time", "[class*=date]",
              "[class*=time]", "[class*=publish]">> >>

\* whether a class or id value contains a substring, on the values that occur
Contains(value, sub) ==
    <<value, sub>> \in {<<"title", "title">>, <<"news-date", "news">>,
                        <<"news-date", "date">>, <<"headline", "head">>}

\* whether a CSS selector of the pattern table, or '*', matches an element
SelectorMatches(selector, elem) ==
    IF selector = "*" THEN TRUE
    ELSE IF selector \in {"h1", "h2", "h3", "h4", "h5", "a", "strong", "time"}
    THEN elem.tag = selector
    ELSE IF selector \in {".title", ".headline", ".name", ".date", ".published", ".time"}
    THEN "." \o elem.cls = selector
    ELSE IF selector = "[class*=title]" THEN Contains(elem.cls, "title")
    ELSE IF selector = "[class*=head]" THEN Contains(elem.cls, "head")
    ELSE IF selector = "[class*=news]" THEN Contains(elem.cls, "news")
    ELSE IF selector = "[class*=date]" THEN Contains(elem.cls, "date")
    ELSE IF selector = "[class*=time]" THEN Contains(elem.cls, "time")
    ELSE IF selector = "[class*=publish]" THEN Contains(elem.cls, "publish")
    ELSE IF selector = "[id*=title]" THEN Contains(elem.id, "title")
    ELSE IF selector = "[id*=news]" THEN Contains(elem.id, "news")
    ELSE IF selector = "a[href]" THEN elem.tag = "a" /\ elem.href # None
    ELSE IF selector = "[href]" THEN elem.href # None
    ELSE FALSE

\* container.select(selector): the matching descendants in document order
Select(container, selector) ==
    LET Hit(elem) == SelectorMatches(selector, elem)
    IN SelectSeq(container.elems, Hit)

\* the validator lambda of a field (the last entry of its pattern list)
FieldValidator(field_name, elem) ==
    IF field_name = "title" THEN TextLen(GetTextStrip(elem.text)) > 5
    ELSE IF field_name = "link" THEN elem.tag = "a" /\ Truthy(elem.href)
    ELSE SearchIsoDate(GetTextStrip(elem.text)) # None

\* _validate_element
ValidateElement(elem, field_name) ==
    LET text == GetTextStrip(elem.text)
    IN IF text = <<>> \/ TextLen(text) < 2 THEN FALSE
       ELSE FieldValidator(field_name, elem)

SelectorValidates(sample_container, selector, field_name) ==
    LET elements == Select(sample_container, selector)
    IN \E i \in 1..Len(elements) : ValidateElement(elements[i], field_name)

\* the loop over the selectors of one group: the selector stored for the field
\* after the group (None while none is stored).  A validating selector is
\* stored; the loop ends after the first selector at which one is stored,
\* whether by this group or by an earlier one.
RECURSIVE DetectInGroup(_, _, _, _, _)
DetectInGroup(sample_container, field_name, group, i, stored) ==
    IF i > Len(group) THEN stored
    ELSE LET now == IF SelectorValidates(sample_container, group[i], field_name)
                    THEN group[i] ELSE stored
         IN IF now # None THEN now
            ELSE DetectInGroup(sample_container, field_name, group, i + 1, now)

\* the loop over the groups of one field
RECURSIVE DetectInGroups(_, _, _, _, _)
DetectInGroups(sample_container, field_name, groups, g, stored) ==
    IF g > Len(groups) THEN stored
    ELSE DetectInGroups(sample_container, field_name, groups, g + 1,
                        DetectInGroup(sample_container, field_name, groups[g], 1, stored))

\* _auto_detect_fields: the selector detected for each field (None for a field
\* that is not detected), with the fallback title '*' when nothing is detected
AutoDetectFields(sample_container) ==
    LET found == [f \in {"title", "link", "date"} |->
                     DetectInGroups(sample_container, f, SelectorGroups(f), 1, None)]
    IN IF \A f \in DOMAIN found : found[f] = None
       THEN [found EXCEPT !["title"] = "*"]
       ELSE found

TitleCap == 100

\* row['link'] = href, and row['nid'] = id_match.group(1) when the id pattern
\* matches
LinkField(href, row) ==
    [row EXCEPT !.link = href,
                !.nid = IF GeneralNidMatches(href) THEN GeneralNid(href) ELSE row.nid]

\* row['date'] = date_match.group(0) when the element's text holds a date
DateField(date_match, row) ==
    IF date_match # None THEN [row EXCEPT !.date = date_match] ELSE row

\* the field taken from the first selected element
ElementField(element, field_name, row) ==
    IF field_name = "link" THEN LinkField(GetOr(element.href, ""), row)
    ELSE IF field_name = "date"
    THEN DateField(SearchIsoDate(Strip(GetTextStrip(element.text))), row)
    ELSE [row EXCEPT ![field_name] = Str(GetTextStrip(element.text))]

\* elements = container.select(selector); if elements: ...
SelectedField(elements, field_name, row) ==
    IF elements = <<>> THEN row ELSE ElementField(elements[1], field_name, row)

\* one iteration of the loop of _extract_general_row over detected_fields
ExtractField(container, field_name, selector, row) ==
    IF selector = None THEN row
    ELSE IF selector = "*"
    THEN [row EXCEPT ![field_name] =
              Str(Truncate(ContainerText(container.elems), TitleCap))]
    ELSE SelectedField(Select(container, selector), field_name, row)

\* if not any(row.values()): the container's text, if any, becomes the title
FallbackTitle(row, content) ==
    IF ~AnyValue(row) /\ content # <<>>
    THEN [row EXCEPT !.title = Str(Truncate(content, TitleCap))]
    ELSE row

\* _extract_general_row: <<record>>, or <<>> for None
ExtractGeneralRow(container, detected_fields) ==
    RowOrNone(
        FallbackTitle(
            ExtractField(container, "date", detected_fields["date"],
                ExtractField(container, "link", detected_fields["link"],
                    ExtractField(container, "title", detected_fields["title"],
                                 NewRecord))),
            ContainerText(container.elems)))

RECURSIVE ExtractGeneralRows(_, _)
ExtractGeneralRows(containers, detected_fields) ==
    IF containers = <<>> THEN <<>>
    ELSE KeepRow(ExtractGeneralRow(Head(containers), detected_fields))
            \o ExtractGeneralRows(Tail(containers), detected_fields)

\* _parse_general_mode: the first container is the sample
ParseGeneralMode(containers) ==
    IF containers = <<>> THEN <<>>
    ELSE ExtractGeneralRows(containers, AutoDetectFields(containers[1]))

\* validate_data
ValidateData(data_list) ==
    LET Valid(item) == Truthy(item.title)
    IN SelectSeq(data_list, Valid)

\* _is_table_mode on the container selectors that occur: whether the lowered
\* selector contains one of 'tbody', 'table', 'tr', 'td', 'th'
IsTableMode(container_selector) ==
    container_selector \in {"table tbody tr", "div.entry"}

MaxItems == 100

\* valid_data[:self.max_items]
FirstItems(valid_data, max_items) ==
    SubSeq(valid_data, 1, Min2(Len(valid_data), max_items))

\* parse: soup is the list of elements container_selector selects on the page
Parse(soup, container_selector, table_mode) ==
    IF soup = <<>> THEN <<>>
    ELSE FirstItems(ValidateData(IF table_mode \/ IsTableMode(container_selector)
                                 THEN ParseTableMode(soup)
                                 ELSE ParseGeneralMode(soup)),
                    MaxItems)

-----------------------------------------------------------------------------
(* detector.py: DataDetector.detect_new_data                               *)

\* the key of a freshly extracted record: (item.get('title',''), item.get('date',''))
CurrentKey(item) == <<GetOr(item.title, ""), GetOr(item.date, "")>>

\* the key of a persisted record: (item.get('活動名稱',''), item.get('起日',''))
PersistedKey(item) == <<GetOr(item.name, ""), GetOr(item.start, "")>>

\* existing_keys: only records whose 活動名稱 and 起日 are both truthy contribute
ExistingKeys(existing_data) ==
    {PersistedKey(existing_data[i]) :
        i \in {j \in 1..Len(existing_data) :
                  Truthy(existing_data[j].name) /\ Truthy(existing_data[j].start)}}

\* detect_new_data without the comparison
DetectEverythingNew(new_data, existing_data) == new_data

DetectNewData(new_data, existing_data) ==
    IF new_data = <<>> THEN <<>>
    ELSE LET existing_keys == ExistingKeys(existing_data)
             IsNew(item) == CurrentKey(item) \notin existing_keys
         IN SelectSeq(new_data, IsNew)

-----------------------------------------------------------------------------
(* excel_manager.py: ExcelManager.load_data and save_data                  *)
(*                                                                         *)
(* The file is [exists, rows]; a row is [name, org, start] as written, an  *)
(* empty cell being the value NaN, which is what read_excel returns for it.*)

NoFile == [exists |-> FALSE, rows |-> <<>>]

\* load_data
LoadData(file) == IF file.exists THEN file.rows ELSE <<>>

\* pd.to_datetime(value, errors='coerce') followed by .dt.strftime('%Y-%m-%d'),
\* on the values that occur: a date keeps its day, anything else becomes NaT,
\* which is written as an empty cell
NormalizeStart(value) ==
    IF value \in {"2024-05-01", "2024-05-01 10:00"} THEN "2024-05-01"
    ELSE IF value = "2024-05-02" THEN "2024-05-02"
    ELSE NaN

\* a missing value (None or NaN) as drop_duplicates compares it
Cell(value) == IF value \in {None, NaN} THEN NaN ELSE value

\* drop_duplicates(subset=['活動名稱', '起日'], keep='last')
DropDuplicatesKeepLast(rows) ==
    LET Key(row) == <<Cell(row.name), Cell(row.start)>>
        kept == {i \in 1..Len(rows) :
                    \A j \in (i + 1)..Len(rows) : Key(rows[j]) # Key(rows[i])}
        RECURSIVE Pick(_)
        Pick(i) == IF i > Len(rows) THEN <<>>
                   ELSE (IF i \in kept THEN <<rows[i]>> ELSE <<>>) \o Pick(i + 1)
    IN Pick(1)

\* sort_values(by='起日', ascending=True, na_position='last'); rows with equal
\* dates keep their order
RECURSIVE SortByStart(_)
SortByStart(rows) ==
    IF rows = <<>> THEN <<>>
    ELSE LET Before(a, b) ==
                 /\ a.start # NaN
                 /\ \/ b.start = NaN
                    \/ (a.start = "2024-05-01" /\ b.start = "2024-05-02")
             first == CHOOSE i \in 1..Len(rows) :
                         /\ \A j \in 1..Len(rows) : ~Before(rows[j], rows[i])
                         /\ \A j \in 1..(i - 1) : Before(rows[i], rows[j])
             rest == [k \in 1..(Len(rows) - 1) |-> IF k < first THEN rows[k] ELSE rows[k + 1]]
         IN <<rows[first]>> \o SortByStart(rest)

\* save_data: what the file holds afterwards
SaveData(file, data_list) ==
    IF data_list = <<>> THEN file
    ELSE LET combined == LoadData(file) \o data_list
             unique == DropDuplicatesKeepLast(combined)
             dated == [i \in 1..Len(unique) |->
                          [unique[i] EXCEPT !.start = NormalizeStart(@),
                                            !.name = Cell(@), !.org = Cell(@)]]
         IN [exists |-> TRUE, rows |-> SortByStart(dated)]

-----------------------------------------------------------------------------
(* main.py: fetch_detail_page, filter_data_by_organizer, monitor_site      *)

\* str.strip() on the titles that occur
StripTitle(title) ==
    IF title = "Event Y " THEN "Event Y"
    ELSE IF title = " " THEN ""
    ELSE title

\* the detail page behind each link of the site: the date its time paragraph
\* gives (None without such a paragraph) and its organizer; "CTLD" stands for
\* 教發中心 and "Library" for an organizer outside the allow-list
DetailPage(link) ==
    IF link = "Dtl.aspx?nid=AB12" THEN [time |-> "2024-05-01", organizer |-> "CTLD"]
    ELSE IF link = "Dtl.aspx?nid=CD34" THEN [time |-> "2024-05-02", organizer |-> "Library"]
    ELSE [time |-> None, organizer |-> "CTLD"]

\* fetch_detail_page without the check of 活動名稱
FetchDetailPageKeepsUntitled(item) ==
    IF ~Truthy(item.link) THEN <<>>
    ELSE <<[name |-> StripTitle(GetOr(item.title, "")),
            org |-> DetailPage(item.link).organizer,
            start |-> IF DetailPage(item.link).time # None
                      THEN DetailPage(item.link).time ELSE item.date]>>

\* fetch_detail_page when the fetch succeeds at once: <<detail record>>, or <<>>
\* for None
FetchDetailPage(item) ==
    IF ~Truthy(item.link) THEN <<>>
    ELSE LET soup == DetailPage(item.link)
             detail_data == [name |-> StripTitle(GetOr(item.title, "")),
                             org |-> soup.organizer,
                             start |-> IF soup.time # None THEN soup.time ELSE item.date]
         IN IF ~Truthy(detail_data.name) THEN <<>> ELSE <<detail_data>>

\* whether fetch_detail_page asks the crawler for the item's detail page
FetchesDetail(item) == Truthy(item.link)

\* filter_data_by_organizer
FilterDataByOrganizer(data, site_config) ==
    IF ~site_config.filtered THEN data
    ELSE LET Allowed(item) == item.org \in {"CTLD", "TLDC"}
         IN SelectSeq(data, Allowed)

DefaultMaxPages == 10

\* the pages of the site's listing: its records, per_page to a page
SitePages(s) == Max2(1, (Len(s.listing) + s.per_page - 1) \div s.per_page)
SitePage(s, p) ==
    SubSeq(s.listing, (p - 1) * s.per_page + 1, Min2(Len(s.listing), p * s.per_page))

\* nothing fetched, read or written yet; pages_ok is the set of listing fetches
\* that succeeded, 0 standing for the first fetch of the site's URL; page_log
\* is the listing page each fetch asked for, in the order of the fetches, the
\* site's URL being page 1 of its listing
NoIo == [page_fetches |-> 0, pages_ok |-> {}, store_reads |-> 0, detail_fetches |-> 0,
         store_writes |-> 0, page_log |-> <<>>]

\* main has not started
NoPool == [sites |-> <<>>, files |-> <<>>, w |-> <<>>, order |-> <<>>, all_data |-> <<>>,
           max_workers |-> 0]

PipelineIdle ==
    /\ site = [listing |-> <<>>, per_page |-> 1, filtered |-> FALSE, auto_pagination |-> TRUE]
    /\ store = NoFile
    /\ run = 0
    /\ pc = "idle"
    /\ pages_total = 0
    /\ page_i = 0
    /\ all_data = <<>>
    /\ list_data = <<>>
    /\ new_items = <<>>
    /\ item_i = 0
    /\ detailed_data = <<>>
    /\ io = NoIo
    /\ attempt = 0
    /\ pool = NoPool

\* paginator.py:24-38: the first page is fetched and analysed; a listing of one
\* page is parsed at once
FetchFirstPage ==
    /\ pc = "start" /\ site.auto_pagination
    /\ LET total == Min2(SitePages(site), DefaultMaxPages)
       IN /\ pages_total' = total
          /\ IF total = 1
             THEN /\ list_data' = SitePage(site, 1)
                  /\ pc' = "detect"
                  /\ page_i' = page_i
             ELSE /\ list_data' = list_data
                  /\ pc' = "pages"
                  /\ page_i' = 1
    /\ io' = [io EXCEPT !.page_fetches = @ + 1, !.pages_ok = @ \cup {0},
                        !.page_log = Append(@, 1)]
    /\ UNCHANGED <<attempt, pool, call, ret, site, store, run, all_data, new_items, item_i,
                   detailed_data>>

\* paginator.py:45-55: the next page URL is fetched and parsed
FetchPage ==
    /\ pc = "pages" /\ page_i <= pages_total
    /\ all_data' = all_data \o SitePage(site, page_i)
    /\ page_i' = page_i + 1
    /\ io' = [io EXCEPT !.page_fetches = @ + 1, !.pages_ok = @ \cup {page_i},
                        !.page_log = Append(@, page_i)]
    /\ UNCHANGED <<attempt, pool, call, ret, site, store, run, pc, pages_total,
                   list_data, new_items,
                   item_i, detailed_data>>

\* paginator.py:62-65
AggregatePages ==
    /\ pc = "pages" /\ page_i > pages_total
    /\ list_data' = DeduplicateData(all_data)
    /\ pc' = "detect"
    /\ UNCHANGED <<attempt, pool, call, ret, site, store, run, pages_total, page_i,
                   all_data, new_items,
                   item_i, detailed_data, io>>

\* main.py:285-294: auto_pagination off, the site's URL is fetched and parsed
FetchSinglePage ==
    /\ pc = "start" /\ ~site.auto_pagination
    /\ list_data' = SitePage(site, 1)
    /\ pc' = "detect"
    /\ io' = [io EXCEPT !.page_fetches = @ + 1, !.pages_ok = @ \cup {0},
                        !.page_log = Append(@, 1)]
    /\ UNCHANGED <<attempt, pool, call, ret, site, store, run, pages_total, page_i, all_data,
                   new_items, item_i, detailed_data>>

\* main.py:296-311: nothing listed ends the run; else the store is loaded and
\* compared; nothing new ends the run
DetectNew ==
    /\ pc = "detect"
    /\ IF list_data = <<>>
       THEN /\ pc' = "done"
            /\ UNCHANGED <<new_items, item_i, io>>
       ELSE /\ new_items' = DetectNewData(list_data, LoadData(store))
            /\ io' = [io EXCEPT !.store_reads = @ + 1]
            /\ item_i' = 1
            /\ pc' = IF new_items' = <<>> THEN "done" ELSE "details"
    /\ UNCHANGED <<attempt, pool, call, ret, site, store, run, pages_total, page_i,
                   all_data, list_data,
                   detailed_data>>

\* main.py:315-319: the detail page of the next new item
FetchDetail ==
    /\ pc = "details" /\ item_i <= Len(new_items)
    /\ detailed_data' = detailed_data \o FetchDetailPage(new_items[item_i])
    /\ io' = IF FetchesDetail(new_items[item_i])
             THEN [io EXCEPT !.detail_fetches = @ + 1] ELSE io
    /\ item_i' = item_i + 1
    /\ attempt' = 0
    /\ UNCHANGED <<pool, call, ret, site, store, run, pc, pages_total, page_i, all_data,
                   list_data, new_items>>

\* main.py:324-339: the organizer filter, then, unless nothing is left,
\* save_data and get_stats.  save_data loads the file again when it exists
\* and writes it; _auto_adjust_columns loads the written workbook and saves it
\* again; get_stats reads it once more.
FilterAndSave ==
    /\ pc = "details" /\ item_i > Len(new_items)
    /\ LET filtered_data == FilterDataByOrganizer(detailed_data, site)
       IN IF filtered_data = <<>>
          THEN UNCHANGED <<store, io>>
          ELSE /\ store' = SaveData(store, filtered_data)
               /\ io' = [io EXCEPT !.store_writes = @ + 2,
                                   !.store_reads = @ + (IF store.exists THEN 3 ELSE 2)]
    /\ pc' = "done"
    /\ UNCHANGED <<attempt, pool, call, ret, site, run, pages_total, page_i, all_data, list_data,
                   new_items, item_i, detailed_data>>

MaxRetries == 3

\* paginator.py:26-29 with main.py:296-298: the first fetch fails, the listing
\* stage returns [] and so does monitor_site
FirstPageFails ==
    /\ pc = "start" /\ site.auto_pagination
    /\ list_data' = <<>>
    /\ pc' = "done"
    /\ io' = [io EXCEPT !.page_fetches = @ + 1, !.page_log = Append(@, 1)]
    /\ UNCHANGED <<attempt, pool, call, ret, site, store, run, pages_total, page_i,
                   all_data, new_items, item_i, detailed_data>>

\* paginator.py:48-51: the fetch of a page URL fails, the loop continues
PageFails ==
    /\ pc = "pages" /\ page_i <= pages_total
    /\ page_i' = page_i + 1
    /\ io' = [io EXCEPT !.page_fetches = @ + 1, !.page_log = Append(@, page_i)]
    /\ UNCHANGED <<attempt, pool, call, ret, site, store, run, pc, pages_total, all_data,
                   list_data, new_items, item_i, detailed_data>>

\* main.py:286-289: auto_pagination off and the fetch fails
SinglePageFails ==
    /\ pc = "start" /\ ~site.auto_pagination
    /\ list_data' = <<>>
    /\ pc' = "done"
    /\ io' = [io EXCEPT !.page_fetches = @ + 1, !.page_log = Append(@, 1)]
    /\ UNCHANGED <<attempt, pool, call, ret, site, store, run, pages_total, page_i,
                   all_data, new_items, item_i, detailed_data>>

\* main.py:139-145 and 208-215: an attempt of fetch_detail_page fails (no
\* soup, or an exception while parsing); after max_retries attempts None is
\* returned and the item is left out
DetailAttemptFails ==
    /\ pc = "details" /\ item_i <= Len(new_items)
    /\ FetchesDetail(new_items[item_i])
    /\ attempt < MaxRetries
    /\ io' = [io EXCEPT !.detail_fetches = @ + 1]
    /\ IF attempt + 1 = MaxRetries
       THEN attempt' = 0 /\ item_i' = item_i + 1
       ELSE attempt' = attempt + 1 /\ item_i' = item_i
    /\ UNCHANGED <<pool, call, ret, site, store, run, pc, pages_total, page_i, all_data,
                   list_data, new_items, detailed_data>>

\* fetch_detail_page called on its own, monitor_site keeping what it returns
\* (main.py:316-319).  pc is "attempting" inside the retry loop.
DetailCalled == call.fn = "fetch_detail_page" /\ ~ret.done

DetailReturns(val, at) ==
    /\ ret' = Returned(val)
    /\ detailed_data' = detailed_data \o val
    /\ pc' = at

\* main.py:129-132: no link, None at once
DetailNoLink ==
    /\ DetailCalled /\ ~FetchesDetail(call.item)
    /\ DetailReturns(<<>>, "no_link")
    /\ UNCHANGED <<call, attempt, io, pool, site, store, run, pages_total, page_i,
                   all_data, list_data, new_items, item_i>>

\* main.py:139-206: the attempt gets the page and parses it
DetailAttempt ==
    /\ DetailCalled /\ FetchesDetail(call.item)
    /\ attempt < MaxRetries
    /\ attempt' = attempt + 1
    /\ io' = [io EXCEPT !.detail_fetches = @ + 1]
    /\ DetailReturns(FetchDetailPage(call.item), "fetched")
    /\ UNCHANGED <<call, pool, site, store, run, pages_total, page_i, all_data,
                   list_data, new_items, item_i>>

\* main.py:141-145 and 208-212: the fetch gives no soup, or the parsing
\* raises; the loop goes on
DetailRetry ==
    /\ DetailCalled /\ FetchesDetail(call.item)
    /\ attempt < MaxRetries
    /\ \E failure \in {"no_soup", "exception"} :
          /\ attempt' = attempt + 1
          /\ io' = [io EXCEPT !.detail_fetches = @ + 1]
    /\ UNCHANGED <<call, ret, pc, detailed_data, pool, site, store, run, pages_total,
                   page_i, all_data, list_data, new_items, item_i>>

\* main.py:214-215: the loop is over
DetailGiveUp ==
    /\ DetailCalled /\ FetchesDetail(call.item)
    /\ attempt = MaxRetries
    /\ DetailReturns(<<>>, "exhausted")
    /\ UNCHANGED <<call, attempt, io, pool, site, store, run, pages_total, page_i,
                   all_data, list_data, new_items, item_i>>

\* the program is run again on the same site, the file left as it is
RunAgain ==
    /\ pc = "done" /\ run = 1
    /\ run' = 2
    /\ pc' = "start"
    /\ pages_total' = 0
    /\ page_i' = 0
    /\ all_data' = <<>>
    /\ list_data' = <<>>
    /\ new_items' = <<>>
    /\ item_i' = 0
    /\ detailed_data' = <<>>
    /\ io' = NoIo
    /\ UNCHANGED <<attempt, pool, call, ret, site, store>>

-----------------------------------------------------------------------------
(* main.py: main, the worker pool over the enabled sites                   *)
(*                                                                         *)
(* pool.sites[i] is the configuration of the i-th enabled site with the    *)
(* listing behind its URL, pool.files the Excel files by name, pool.w[i]   *)
(* the worker running monitor_site for site i, pool.order the sites in the *)
(* order as_completed yielded them and pool.all_data main's all_data.      *)
(* A worker is [pc, new_items, data, snapshot, result, failed]: data is    *)
(* filtered_data, snapshot the file as save_data read it, result what      *)
(* monitor_site returned, failed whether the site's pipeline failed.       *)

DefaultMaxWorkers == 5

QueuedWorker == [pc |-> "queued", new_items |-> <<>>, data |-> <<>>, snapshot |-> NoFile,
                 result |-> <<>>, failed |-> FALSE]

Running(worker) == worker.pc \in {"listing", "detect", "details", "save", "write"}
Completed(worker) == worker.pc \in {"returned", "raised"}

\* monitor_site returns result
ReturnFrom(worker, result) == [worker EXCEPT !.pc = "returned", !.result = result]

\* main.py:305-309: nothing new returns []
WithNewItems(worker, new_items_) ==
    IF new_items_ = <<>> THEN ReturnFrom(worker, <<>>)
    ELSE [worker EXCEPT !.pc = "details", !.new_items = new_items_]

\* main.py:324-328: nothing left by the filter returns []
WithData(worker, filtered_data) ==
    IF filtered_data = <<>> THEN ReturnFrom(worker, <<>>)
    ELSE [worker EXCEPT !.pc = "save", !.data = filtered_data]

\* main.py:384-391: site_data = future.result() is appended when it is not
\* empty; an exception of the future is logged
CollectDropsAll(all_data_, worker) ==
    IF worker.pc = "raised" THEN <<>> ELSE all_data_ \o worker.result

CollectResult(all_data_, worker) ==
    IF worker.pc = "raised" THEN all_data_
    ELSE IF worker.result # <<>> THEN all_data_ \o worker.result
    ELSE all_data_

\* every detail page of the new items, fetched at the first attempt
RECURSIVE FetchDetailPages(_)
FetchDetailPages(items) ==
    IF items = <<>> THEN <<>>
    ELSE FetchDetailPage(Head(items)) \o FetchDetailPages(Tail(items))

\* the executor runs at most max_workers calls at once and starts them in the
\* order of submission
\* the steps of main and its workers leave the rest of the state alone
PoolOnly ==
    /\ call.fn = "main"
    /\ UNCHANGED <<call, ret, site, store, run, pc, pages_total, page_i, all_data,
                   list_data, new_items, item_i, detailed_data, io, attempt>>

WorkerStart(i) ==
    /\ PoolOnly
    /\ pool.w[i].pc = "queued"
    /\ \A j \in DOMAIN pool.w : j < i => pool.w[j].pc # "queued"
    /\ Cardinality({j \in DOMAIN pool.w : Running(pool.w[j])}) < pool.max_workers
    /\ pool' = [pool EXCEPT !.w[i].pc = "listing"]

\* main.py:273-298: the listing stage; nothing listed returns []
WorkerListing(i) ==
    /\ PoolOnly
    /\ pool.w[i].pc = "listing"
    /\ pool' = [pool EXCEPT !.w[i] =
                   IF pool.sites[i].listing = <<>> THEN ReturnFrom(@, <<>>)
                   ELSE [@ EXCEPT !.pc = "detect"]]

\* paginator.py:26-29, main.py:286-289 and 296-298: the listing fetch fails
WorkerListingFails(i) ==
    /\ PoolOnly
    /\ pool.w[i].pc = "listing"
    /\ pool' = [pool EXCEPT !.w[i] = [ReturnFrom(@, <<>>) EXCEPT !.failed = TRUE]]

\* main.py:304-309
WorkerDetect(i) ==
    /\ PoolOnly
    /\ pool.w[i].pc = "detect"
    /\ pool' = [pool EXCEPT !.w[i] =
                   WithNewItems(@, DetectNewData(pool.sites[i].listing,
                                                 LoadData(pool.files[pool.sites[i].file])))]

\* main.py:314-328
WorkerDetails(i) ==
    /\ PoolOnly
    /\ pool.w[i].pc = "details"
    /\ pool' = [pool EXCEPT !.w[i] =
                   WithData(@, FilterDataByOrganizer(FetchDetailPages(@.new_items),
                                                     pool.sites[i]))]

\* excel_manager.py:41-56: save_data reads the file
WorkerSaveRead(i) ==
    /\ PoolOnly
    /\ pool.w[i].pc = "save"
    /\ pool' = [pool EXCEPT !.w[i] =
                   [@ EXCEPT !.pc = "write", !.snapshot = pool.files[pool.sites[i].file]]]

\* excel_manager.py:59-78 and main.py:339: save_data writes the merged rows,
\* monitor_site returns filtered_data
WorkerSaveWrite(i) ==
    /\ PoolOnly
    /\ pool.w[i].pc = "write"
    /\ pool' = [pool EXCEPT
                   !.files[pool.sites[i].file] = SaveData(pool.w[i].snapshot, pool.w[i].data),
                   !.w[i] = ReturnFrom(@, @.data)]

\* main.py:341-343: an unexpected exception inside monitor_site's try block is
\* logged and [] returned; when the handler itself raises, the future raises
WorkerException(i) ==
    /\ PoolOnly
    /\ pool.w[i].pc \in {"listing", "detect", "details"}
    /\ \E escapes \in BOOLEAN :
          pool' = [pool EXCEPT !.w[i] =
                      [@ EXCEPT !.pc = IF escapes THEN "raised" ELSE "returned",
                                !.result = <<>>, !.failed = TRUE]]

\* main.py:381-391: as_completed yields a completed future
MainCollect(i) ==
    /\ PoolOnly
    /\ Completed(pool.w[i])
    /\ \A k \in 1..Len(pool.order) : pool.order[k] # i
    /\ pool' = [pool EXCEPT !.order = Append(@, i),
                            !.all_data = CollectResult(@, pool.w[i])]

-----------------------------------------------------------------------------
(* Value sets of the examined inputs                                       *)

MaxList == 3        \* longest record list handed to _deduplicate_data
MaxCurrent == 2     \* longest list of current records handed to detect_new_data
MaxPersisted == 2   \* longest list of persisted records

Titles == {"A", "B"}
Nids == {"AB12", "CD34"}
Hashes == {"h1", "h2"}
D1 == "2024-05-01"
D2 == "2024-05-02"
D1T == "2024-05-01 10:00"

\* records as the aggregation step may receive them: nid and hash optional
DedupRecords == [title : Titles, nid : Nids \cup {None}, hash : Hashes \cup {None}]

\* list records as detect_new_data reads them (date missing, empty or set)
CurrentRecords == [title : Titles, date : {None, "", D1}]

\* persisted records as load_data may return them
PersistedRecords == [name : Titles, start : {None, "", NaN, D1}]

MaxQuery == 2       \* most parameters in the query of an original URL
MaxTotal == 3       \* largest total_pages handed to _generate_page_urls

QueryPairs == [k : {"spid", "pg", "cat"}, v : {"", "XYZ", "%58YZ"}]
OriginalUrls == [base : {"https://site/x.aspx", "http://host/news"},
                 query : SeqUpTo(QueryPairs, MaxQuery),
                 fragment : {""}]
\* pagination_config: None, {} (both falsy) or a dict with or without page_param
PaginationConfigs ==
    {[kind |-> "none", page_param |-> None], [kind |-> "empty", page_param |-> None]}
        \cup [kind : {"dict"}, page_param : {None, "pg", "page"}]
\* pagination_info as _generate_page_urls reads it: only its page_param key
PaginationInfos == [page_param : {None, "page"}]

MaxAnchors == 2     \* most <a> elements on an analysed page
MaxTextLen == 5     \* most tokens in the text of a pagination container

AnchorHrefs == {NoHref, [k |-> "pg", n |-> 1], [k |-> "pg", n |-> 5],
                [k |-> "page", n |-> 3], [k |-> "nid", n |-> 7]}
AnchorTexts == {<<>>, <<"w">>, <<"next">>, <<"last">>, <<"3">>, <<"sp", "3">>,
                <<"w", "sp", "4">>, <<"1">>}
PageAnchors == [href : AnchorHrefs, text : AnchorTexts]
ContainerTokens == {"gong", "sp", "ye", "/", "total", "1", "3"}
NoContainer == [found |-> FALSE, text |-> <<>>]
TotalOfThree == <<"gong", "sp", "3", "sp", "ye">>

\* pages with any anchors and one of a few containers, and pages with any
\* container text and one of a few anchor lists
AnalysedPages ==
    [anchors : SeqUpTo(PageAnchors, MaxAnchors),
     container : {NoContainer, [found |-> TRUE, text |-> TotalOfThree],
                  [found |-> TRUE, text |-> <<"w">>]}]
    \cup
    [anchors : {<<>>, <<[href |-> NoHref, text |-> <<"next">>]>>},
     container : [found : {TRUE}, text : SeqUpTo(ContainerTokens, MaxTextLen)]]

MaxIndicators == 1  \* most elements the current-page indicators select

\* the pages detect_pagination is given
UrlHints == {NoHref, [k |-> "nid", n |-> 7], [k |-> "pg", n |-> 2],
             [k |-> "page", n |-> 3], [k |-> "pg", n |-> 0]}
OgUrls ==
    {[present |-> FALSE, has_content |-> FALSE, content |-> NoHref],
     [present |-> TRUE, has_content |-> FALSE, content |-> NoHref]}
    \cup [present : {TRUE}, has_content : {TRUE}, content : UrlHints]
Canonicals ==
    {[present |-> FALSE, href |-> NoHref],
     [present |-> TRUE, href |-> [k |-> "nid", n |-> 7]],
     [present |-> TRUE, href |-> [k |-> "pg", n |-> 3]]}
IndicatorTexts == {<<>>, <<"w">>, <<"0">>, <<"2">>, <<"sp", "3", "sp">>}
FetchedPages ==
    [og_url : OgUrls, canonical : Canonicals,
     indicators : SeqUpTo(IndicatorTexts, MaxIndicators),
     page : {[anchors |-> <<>>, container |-> NoContainer],
             [anchors |-> <<[href |-> [k |-> "pg", n |-> 5], text |-> <<"next">>]>>,
              container |-> [found |-> TRUE, text |-> TotalOfThree]]}]

MaxContainers == 2  \* most containers the container selector finds on a listing
PageSize == 1       \* containers on one listing page of a multi-page listing

NoAnchor == [present |-> FALSE, text |-> <<>>, href |-> None]
NoSpan == [present |-> FALSE, text |-> <<>>]
RowAnchors ==
    {NoAnchor,
     [present |-> TRUE, text |-> <<"Event X">>, href |-> "Dtl.aspx?nid=AB12"],
     [present |-> TRUE, text |-> <<"Event X">>, href |-> "Dtl.aspx?id=7"],
     [present |-> TRUE, text |-> <<"sp", "Event Y", "sp">>, href |-> "Dtl.aspx?nid=CD34"],
     [present |-> TRUE, text |-> <<"sp">>, href |-> "Dtl.aspx?nid=AB12"]}
\* the cells after the first one and the hidden span of the first one
RowDates ==
    {[hidden |-> NoSpan, more |-> <<>>],
     [hidden |-> [present |-> TRUE, text |-> <<"2024-05-01">>],
      more |-> <<[a |-> NoAnchor, hidden |-> NoSpan, text |-> <<"2024-05-02">>]>>],
     [hidden |-> [present |-> TRUE, text |-> <<"2024-05-01">>],
      more |-> <<[a |-> NoAnchor, hidden |-> NoSpan, text |-> <<"w">>]>>],
     [hidden |-> NoSpan,
      more |-> <<[a |-> NoAnchor, hidden |-> NoSpan,
                  text |-> <<"2024-05-01", "sp", "10:00">>]>>]}
\* what a table selector may select: rows with cells, a row without cells and
\* an element that is no row
TableRows ==
    {[name |-> "tr", elems |-> <<>>,
      cells |-> <<[a |-> a, hidden |-> d.hidden, text |-> <<>>]>> \o d.more] :
         a \in RowAnchors, d \in RowDates}
    \cup {[name |-> "tr", elems |-> <<>>, cells |-> <<>>],
          [name |-> "div", elems |-> <<>>, cells |-> <<>>]}

Headings ==
    {[tag |-> "h3", cls |-> "", id |-> "", href |-> None, text |-> <<"Event X">>],
     [tag |-> "h3", cls |-> "", id |-> "", href |-> None, text |-> <<"sp">>],
     [tag |-> "span", cls |-> "title", id |-> "", href |-> None,
      text |-> <<"sp", "Event X", "sp">>]}
LinkElems ==
    {[tag |-> "a", cls |-> "", id |-> "", href |-> "Dtl.aspx?nid=AB12",
      text |-> <<"Event Y">>],
     [tag |-> "a", cls |-> "", id |-> "", href |-> "Dtl.aspx?id=7", text |-> <<"w", "w">>]}
DateElems ==
    {[tag |-> "time", cls |-> "", id |-> "", href |-> None, text |-> <<"2024-05-01">>],
     [tag |-> "span", cls |-> "news-date", id |-> "", href |-> None,
      text |-> <<"w", "sp", "2024-05-02">>]}
OneOrNone(S) == {<<>>} \cup {<<e>> : e \in S}
\* what a non-table selector may select: an element with an optional heading,
\* an optional link and an optional date, in this order
GeneralContainers ==
    {[name |-> "div", cells |-> <<>>, elems |-> h \o l \o d] :
        h \in OneOrNone(Headings), l \in OneOrNone(LinkElems), d \in OneOrNone(DateElems)}

MaxElems == 2      \* most elements inside a sample container

\* the first container of a listing, its elements in any order
SampleContainers ==
    {[name |-> "div", cells |-> <<>>, elems |-> e] :
        e \in SeqUpTo(Headings \cup LinkElems \cup DateElems, MaxElems)}

\* the arguments of parse: the selector, the table_mode flag and what the
\* selector finds on the listing
ParseCalls ==
    [fn : {"parse"}, container_selector : {"table tbody tr", "div.entry"},
     table_mode : {FALSE}, soup : SeqUpTo(TableRows, MaxContainers)]
    \cup
    [fn : {"parse"}, container_selector : {"div.news-item"},
     table_mode : {TRUE}, soup : SeqUpTo(TableRows, MaxContainers)]
    \cup
    [fn : {"parse"}, container_selector : {"div.news-item"},
     table_mode : {FALSE}, soup : SeqUpTo(GeneralContainers, MaxContainers)]

MaxListing == 2     \* most records on the listing of a monitored site

\* the records parse gives for the containers of a listing; the nid is the one
\* of the link, and a title cut at 100 characters may end in a blank
ListingRecords ==
    {[title |-> t, date |-> d, link |-> l, nid |-> TableNid(l), hash |-> None] :
        t \in {"Event X", "Event Y "},
        d \in {None, "2024-05-01", "2024-05-01 10:00"},
        l \in {"Dtl.aspx?nid=AB12", "Dtl.aspx?nid=CD34", "Dtl.aspx?id=7"}}
Sites == [listing : SeqUpTo(ListingRecords, MaxListing),
          per_page : {1, MaxListing},
          filtered : BOOLEAN,
          auto_pagination : BOOLEAN]

MaxSaved == 2       \* most records handed to one save_data call
MaxSaves == 2       \* most save_data calls on one file

\* the detail records monitor_site hands to save_data: a start date is the
\* detail page's day, or the listing date as it was extracted, or None
SavedRecords ==
    {[name |-> n, org |-> "CTLD", start |-> d] :
        n \in {"Event X", "Event Y"},
        d \in {None, "2024-05-01", "2024-05-01 10:00", "2024-05-02"}}

\* the enabled sites of the configuration, in its order, and the Excel files
\* they name
PoolSiteIds == {1, 2}
PoolFiles == {"a.xlsx", "b.xlsx"}
PoolListings ==
    {<<>>,
     <<[title |-> "Event X", date |-> "2024-05-01", link |-> "Dtl.aspx?nid=AB12",
        nid |-> "AB12", hash |-> None]>>,
     <<[title |-> "Event Y ", date |-> None, link |-> "Dtl.aspx?id=7",
        nid |-> None, hash |-> None]>>}
PoolSites == [listing : PoolListings, file : PoolFiles, filtered : {FALSE}]

\* the sites and the Excel file of a run in which fetches may fail
FlakyRecords ==
    {[title |-> "Event X", date |-> "2024-05-01", link |-> "Dtl.aspx?nid=AB12",
      nid |-> "AB12", hash |-> None],
     [title |-> "Event Y ", date |-> None, link |-> "Dtl.aspx?nid=CD34",
      nid |-> "CD34", hash |-> None],
     [title |-> "Event X", date |-> "2024-05-01 10:00", link |-> "Dtl.aspx?id=7",
      nid |-> None, hash |-> None]}
FlakySites == [listing : SeqUpTo(FlakyRecords, MaxListing),
               per_page : {1, MaxListing},
               filtered : BOOLEAN,
               auto_pagination : BOOLEAN]
FlakyStores ==
    {NoFile,
     [exists |-> TRUE,
      rows |-> <<[name |-> "Event X", org |-> "CTLD", start |-> "2024-05-01"]>>]}

\* the items handed to fetch_detail_page
DetailItems ==
    [title : {None, "", " ", "Event X", "Event Y "},
     date : {None, "2024-05-01"},
     link : {None, "", "Dtl.aspx?nid=AB12", "Dtl.aspx?id=7"},
     nid : {None}, hash : {None}]

-----------------------------------------------------------------------------
(* Specification SpecDedup: _deduplicate_data applied to any record list   *)

InitDedup ==
    /\ PipelineIdle
    /\ call \in [fn : {"_deduplicate_data"}, data_list : SeqUpTo(DedupRecords, MaxList)]
    /\ ret = NotCalled

CallDeduplicateData ==
    /\ call.fn = "_deduplicate_data"
    /\ ~ret.done
    /\ ret' = Returned(DeduplicateData(call.data_list))
    /\ UNCHANGED call
    /\ UNCHANGED pipeline_vars

NextDedup == CallDeduplicateData

SpecDedup == InitDedup /\ [][NextDedup]_vars

(* Specification SpecDetect: detect_new_data applied to any two lists      *)

InitDetect ==
    /\ PipelineIdle
    /\ call \in [fn : {"detect_new_data"},
                 new_data : SeqUpTo(CurrentRecords, MaxCurrent),
                 existing_data : SeqUpTo(PersistedRecords, MaxPersisted)]
    /\ ret = NotCalled

CallDetectNewData ==
    /\ call.fn = "detect_new_data"
    /\ ~ret.done
    /\ ret' = Returned(DetectNewData(call.new_data, call.existing_data))
    /\ UNCHANGED call
    /\ UNCHANGED pipeline_vars

NextDetect == CallDetectNewData

SpecDetect == InitDetect /\ [][NextDetect]_vars

(* Specification SpecUrls: _generate_page_urls applied to any original URL *)

InitUrls ==
    /\ PipelineIdle
    /\ call \in [fn : {"_generate_page_urls"},
                 base_url : OriginalUrls,
                 total_pages : 1..MaxTotal,
                 pagination_info : PaginationInfos,
                 pagination_config : PaginationConfigs]
    /\ ret = NotCalled

CallGeneratePageUrls ==
    /\ call.fn = "_generate_page_urls"
    /\ ~ret.done
    /\ ret' = Returned(GeneratePageUrls(call.base_url, call.total_pages,
                                        call.pagination_info, call.pagination_config))
    /\ UNCHANGED call
    /\ UNCHANGED pipeline_vars

NextUrls == CallGeneratePageUrls

SpecUrls == InitUrls /\ [][NextUrls]_vars

(* Specification SpecPagination: the total page count of any analysed page *)

InitPagination ==
    /\ PipelineIdle
    /\ call \in [fn : {"_extract_total_pages_from_pagination"}, soup : AnalysedPages]
    /\ ret = NotCalled

CallExtractTotalPages ==
    /\ call.fn = "_extract_total_pages_from_pagination"
    /\ ~ret.done
    /\ ret' = Returned(ExtractTotalPages(call.soup))
    /\ UNCHANGED call
    /\ UNCHANGED pipeline_vars

NextPagination == CallExtractTotalPages

SpecPagination == InitPagination /\ [][NextPagination]_vars

(* Specification SpecCurrentPage: detect_pagination applied to any fetched  *)
(* page                                                                     *)

InitCurrentPage ==
    /\ PipelineIdle
    /\ call \in [fn : {"detect_pagination"}, soup : FetchedPages]
    /\ ret = NotCalled

CallDetectPagination ==
    /\ call.fn = "detect_pagination"
    /\ ~ret.done
    /\ ret' = Returned(DetectPagination(call.soup))
    /\ UNCHANGED call
    /\ UNCHANGED pipeline_vars

NextCurrentPage == CallDetectPagination

SpecCurrentPage == InitCurrentPage /\ [][NextCurrentPage]_vars

(* Specification SpecParse: the listing stage of auto_fetch_all_pages on a  *)
(* listing of one or more pages, every page fetched: parse of each page,   *)
(* then _deduplicate_data over the pages' records when there are several   *)

\* the number of listing pages, and the containers of page p
NumPages(soup) == Max2(1, (Len(soup) + PageSize - 1) \div PageSize)
PageOf(soup, p) == SubSeq(soup, (p - 1) * PageSize + 1, Min2(Len(soup), p * PageSize))

RECURSIVE Flatten(_)
Flatten(lists) == IF lists = <<>> THEN <<>> ELSE Head(lists) \o Flatten(Tail(lists))

\* the result after one more page: with a single page its records are returned
AfterPage(pages, page_data, single) ==
    [done |-> single,
     val |-> [page_data |-> Append(pages, page_data),
              unique_data |-> IF single THEN page_data ELSE <<>>]]

InitParse ==
    /\ PipelineIdle
    /\ call \in ParseCalls
    /\ ret = [done |-> FALSE, val |-> [page_data |-> <<>>, unique_data |-> <<>>]]

\* paginator.py:38 and 53: parse of the next page; with a single page its
\* result is returned as it is
ParsePage ==
    /\ call.fn = "parse"
    /\ ~ret.done
    /\ Len(ret.val.page_data) < NumPages(call.soup)
    /\ ret' = AfterPage(ret.val.page_data,
                        Parse(PageOf(call.soup, Len(ret.val.page_data) + 1),
                              call.container_selector, call.table_mode),
                        NumPages(call.soup) = 1)
    /\ UNCHANGED call
    /\ UNCHANGED pipeline_vars

\* paginator.py:62: all_data of the pages, deduplicated
Aggregate ==
    /\ call.fn = "parse"
    /\ ~ret.done
    /\ Len(ret.val.page_data) = NumPages(call.soup)
    /\ ret' = [done |-> TRUE,
               val |-> [ret.val EXCEPT
                           !.unique_data = DeduplicateData(Flatten(ret.val.page_data))]]
    /\ UNCHANGED call
    /\ UNCHANGED pipeline_vars

NextParse == ParsePage \/ Aggregate

SpecParse == InitParse /\ [][NextParse]_vars

(* Specification SpecExtract: _auto_detect_fields applied to any sample     *)
(* container and _extract_table_row applied to any row                      *)

InitExtract ==
    /\ PipelineIdle
    /\ call \in [fn : {"_auto_detect_fields"}, sample_container : SampleContainers]
                \cup [fn : {"_extract_table_row"}, row : TableRows]
    /\ ret = NotCalled

CallAutoDetectFields ==
    /\ call.fn = "_auto_detect_fields"
    /\ ~ret.done
    /\ ret' = Returned(AutoDetectFields(call.sample_container))
    /\ UNCHANGED call
    /\ UNCHANGED pipeline_vars

CallExtractTableRow ==
    /\ call.fn = "_extract_table_row"
    /\ ~ret.done
    /\ ret' = Returned(ExtractTableRow(call.row))
    /\ UNCHANGED call
    /\ UNCHANGED pipeline_vars

NextExtract == CallAutoDetectFields \/ CallExtractTableRow

SpecExtract == InitExtract /\ [][NextExtract]_vars

(* Specification SpecStore: save_data called up to MaxSaves times on one   *)
(* Excel file that is absent at first                                      *)

InitStore ==
    /\ PipelineIdle
    /\ call = [fn |-> "save_data", data_list |-> <<>>, saves |-> 0]
    /\ ret = NotCalled

CallSaveData ==
    /\ call.fn = "save_data"
    /\ call.saves < MaxSaves
    /\ \E data_list \in SeqUpTo(SavedRecords, MaxSaved) :
          /\ store' = SaveData(store, data_list)
          /\ call' = [fn |-> "save_data", data_list |-> data_list, saves |-> call.saves + 1]
    /\ UNCHANGED <<ret, site, run, pc, pages_total, page_i, all_data, list_data,
                   new_items, item_i, detailed_data, io, attempt, pool>>

NextStore == CallSaveData

SpecStore == InitStore /\ [][NextStore]_vars

(* Specification SpecDetail: fetch_detail_page on every item, every        *)
(* attempt failing or not; the call runs to its end                        *)

InitDetail ==
    /\ \E item \in DetailItems : call = [fn |-> "fetch_detail_page", item |-> item]
    /\ ret = NotCalled
    /\ site = [listing |-> <<>>, per_page |-> 1, filtered |-> FALSE,
               auto_pagination |-> TRUE]
    /\ store = NoFile
    /\ run = 0
    /\ pc = "attempting"
    /\ pages_total = 0
    /\ page_i = 0
    /\ all_data = <<>>
    /\ list_data = <<>>
    /\ new_items = <<>>
    /\ item_i = 0
    /\ detailed_data = <<>>
    /\ io = NoIo
    /\ attempt = 0
    /\ pool = NoPool

NextDetail ==
    \/ DetailNoLink
    \/ DetailAttempt
    \/ DetailRetry
    \/ DetailGiveUp

SpecDetail == InitDetail /\ [][NextDetail]_vars /\ WF_vars(NextDetail)

(* Specification SpecFlaky: one run of monitor_site in which every fetch   *)
(* of a listing page and every attempt at a detail page may fail, on a     *)
(* file that is absent or holds a record of an earlier run                 *)

InitFlaky ==
    /\ call = [fn |-> "monitor_site"]
    /\ ret = NotCalled
    /\ site \in FlakySites
    /\ store \in FlakyStores
    /\ run = 1
    /\ pc = "start"
    /\ pages_total = 0
    /\ page_i = 0
    /\ all_data = <<>>
    /\ list_data = <<>>
    /\ new_items = <<>>
    /\ item_i = 0
    /\ detailed_data = <<>>
    /\ io = NoIo
    /\ attempt = 0
    /\ pool = NoPool

NextFlaky ==
    \/ FetchFirstPage
    \/ FirstPageFails
    \/ FetchPage
    \/ PageFails
    \/ AggregatePages
    \/ FetchSinglePage
    \/ SinglePageFails
    \/ DetectNew
    \/ FetchDetail
    \/ DetailAttemptFails
    \/ FilterAndSave

SpecFlaky == InitFlaky /\ [][NextFlaky]_vars

(* Specification SpecPool: main runs monitor_site for every enabled site   *)
(* in a pool of max_workers threads and collects the results; a listing    *)
(* fetch may fail and an unexpected exception may occur in any worker.     *)
(* The threads and main's loop keep running, hence the weak fairness.      *)

InitPool ==
    /\ call = [fn |-> "main"]
    /\ ret = NotCalled
    /\ site = [listing |-> <<>>, per_page |-> 1, filtered |-> FALSE, auto_pagination |-> TRUE]
    /\ store = NoFile
    /\ run = 0
    /\ pc = "idle"
    /\ pages_total = 0
    /\ page_i = 0
    /\ all_data = <<>>
    /\ list_data = <<>>
    /\ new_items = <<>>
    /\ item_i = 0
    /\ detailed_data = <<>>
    /\ io = NoIo
    /\ attempt = 0
    /\ \E sites \in [PoolSiteIds -> PoolSites], max_workers \in {1, DefaultMaxWorkers} :
          pool = [sites |-> sites,
                  files |-> [f \in PoolFiles |-> NoFile],
                  w |-> [i \in PoolSiteIds |-> QueuedWorker],
                  order |-> <<>>,
                  all_data |-> <<>>,
                  max_workers |-> max_workers]

NextPool ==
    \/ \E i \in PoolSiteIds : WorkerStart(i)
    \/ \E i \in PoolSiteIds : WorkerListing(i)
    \/ \E i \in PoolSiteIds : WorkerListingFails(i)
    \/ \E i \in PoolSiteIds : WorkerDetect(i)
    \/ \E i \in PoolSiteIds : WorkerDetails(i)
    \/ \E i \in PoolSiteIds : WorkerSaveRead(i)
    \/ \E i \in PoolSiteIds : WorkerSaveWrite(i)
    \/ \E i \in PoolSiteIds : WorkerException(i)
    \/ \E i \in PoolSiteIds : MainCollect(i)

SpecPool == InitPool /\ [][NextPool]_vars /\ WF_vars(NextPool)

(* Specification Spec: monitor_site run twice on one enabled site whose    *)
(* robots.txt allows it, every fetch succeeding, the source unchanged and  *)
(* the Excel file, absent at first, left as the first run wrote it         *)

Init ==
    /\ call = [fn |-> "monitor_site"]
    /\ ret = NotCalled
    /\ site \in Sites
    /\ store = NoFile
    /\ run = 1
    /\ pc = "start"
    /\ pages_total = 0
    /\ page_i = 0
    /\ all_data = <<>>
    /\ list_data = <<>>
    /\ new_items = <<>>
    /\ item_i = 0
    /\ detailed_data = <<>>
    /\ io = NoIo
    /\ attempt = 0
    /\ pool = NoPool

Next ==
    \/ FetchFirstPage
    \/ FetchPage
    \/ AggregatePages
    \/ FetchSinglePage
    \/ DetectNew
    \/ FetchDetail
    \/ FilterAndSave
    \/ RunAgain

Spec == Init /\ [][Next]_vars

-----------------------------------------------------------------------------
(* Claims about detect_new_data                                            *)

\* C2: detect_new_data returns, in input order, exactly the current records
\* whose (title, date) key equals no persisted record's (name, start) pair,
\* also when the date is empty or missing on both sides.
DetectReturnsExactlyUnseenKeys ==
    (call.fn = "detect_new_data" /\ ret.done) =>
        LET persisted == {PersistedKey(call.existing_data[i]) :
                             i \in 1..Len(call.existing_data)}
            Unseen(item) == CurrentKey(item) \notin persisted
        IN ret.val = SelectSeq(call.new_data, Unseen)

-----------------------------------------------------------------------------
(* Claims about monitor_site                                               *)

\* C1: the second run against an unchanged source, with the store as the
\* first run left it, classifies no record as new, fetches no detail page and
\* does not rewrite the store.
SecondRunFindsNothingNew ==
    run = 2 =>
        /\ new_items = <<>>
        /\ io.detail_fetches = 0
        /\ io.store_writes = 0

-----------------------------------------------------------------------------
(* Claims about save_data                                                  *)

\* C11: after any sequence of save_data calls with non-empty input the store
\* holds no two records with the same (activity name, start date) as
\* persisted.
StoreHasNoDuplicateKey ==
    call.fn = "save_data" =>
        \A i, j \in 1..Len(store.rows) :
            i # j => <<store.rows[i].name, store.rows[i].start>>
                        # <<store.rows[j].name, store.rows[j].start>>

-----------------------------------------------------------------------------
(* Claims about main                                                       *)

PoolDone == call.fn = "main" /\ Len(pool.order) = Cardinality(PoolSiteIds)

RECURSIVE ResultsInOrder(_, _)
ResultsInOrder(order, w) ==
    IF order = <<>> THEN <<>>
    ELSE w[Head(order)].result \o ResultsInOrder(Tail(order), w)

\* a site that did not fail ran to its end: it returned what it saved, and it
\* returned nothing only because nothing was listed, new or left by the filter
RanToCompletion(worker) ==
    /\ worker.pc = "returned"
    /\ worker.result = worker.data

SiteFailuresIsolated ==
    PoolDone =>
        /\ \A i \in PoolSiteIds :
              IF pool.w[i].failed THEN pool.w[i].result = <<>>
              ELSE RanToCompletion(pool.w[i])
        /\ pool.all_data = ResultsInOrder(pool.order, pool.w)

\* C12: a site whose pipeline fails at any stage contributes an empty result,
\* and every other enabled site's pipeline still runs to completion with its
\* records in the overall result: main always gets to the end, with the
\* results of all the sites that did not fail.
SiteFailuresNeverAbortSiblings ==
    /\ []SiteFailuresIsolated
    /\ <>PoolDone

\* main has collected two sites, one that failed and one that saved a record
OneSiteFailedOtherSaved ==
    /\ PoolDone
    /\ \E i, j \in PoolSiteIds :
          /\ pool.w[i].failed /\ pool.w[i].pc = "raised"
          /\ ~pool.w[j].failed /\ pool.w[j].result # <<>>
          /\ pool.all_data = pool.w[j].result
          /\ pool.order = <<i, j>>

\* C15: saves of concurrent pipelines to one file are serialized, so that
\* after both completed the file holds every record either of them saved.
ConcurrentSavesKeepAllRecords ==
    PoolDone =>
        \A i \in PoolSiteIds :
            \A k \in 1..Len(pool.w[i].result) :
                \E n \in 1..Len(pool.files[pool.sites[i].file].rows) :
                    LET row == pool.files[pool.sites[i].file].rows[n]
                    IN /\ row.name = pool.w[i].result[k].name
                       /\ row.start = NormalizeStart(pool.w[i].result[k].start)

-----------------------------------------------------------------------------
(* Claims about one run of monitor_site with failing fetches               *)

ListingStageOver == call.fn = "monitor_site" /\ pc \in {"detect", "details", "done"}

\* the pages the listing has, as far as the page limit lets them be fetched
ListingPages(s) == 1..Min2(SitePages(s), DefaultMaxPages)

\* the URL of page p was requested: the first fetch is the only one of a
\* listing of one page, else page p is the p-th fetch after it
PageRequested(p) ==
    IF SitePages(site) = 1 THEN io.page_fetches >= 1 ELSE io.page_fetches >= p + 1

PageFetched(p) == IF SitePages(site) = 1 THEN 0 \in io.pages_ok ELSE p \in io.pages_ok

\* the aggregated result holds the record or the one sharing its identifier
InListing(rec) ==
    \E j \in 1..Len(list_data) :
        \/ list_data[j] = rec
        \/ Truthy(Identifier(rec)) /\ Identifier(list_data[j]) = Identifier(rec)

\* C13: whichever fetch of the listing stage fails, the first included, every
\* page of the listing is still requested, and every identified record of a
\* page that was fetched reaches the aggregated result.
FailedFetchLosesOnlyItsPage ==
    (ListingStageOver /\ site.auto_pagination) =>
        \A p \in ListingPages(site) :
            /\ PageRequested(p)
            /\ PageFetched(p) =>
                  \A k \in 1..Len(SitePage(site, p)) :
                      (SitePages(site) = 1 \/ Truthy(Identifier(SitePage(site, p)[k])))
                          => InListing(SitePage(site, p)[k])

\* the key of the listing record is the key of a row of the file
KeyInStore(item) ==
    \E n \in 1..Len(store.rows) :
        /\ Truthy(store.rows[n].name) /\ Truthy(store.rows[n].start)
        /\ GetOr(item.title, "") = store.rows[n].name
        /\ GetOr(item.date, "") = store.rows[n].start

StoreReadOnceWrittenOnce ==
    call.fn = "monitor_site" =>
        /\ io.store_reads <= 1
        /\ io.store_writes <= 1
        /\ io.detail_fetches > 0 => io.store_reads = 1
        /\ io.store_writes > 0 => pc = "done"
        /\ (pc = "done" /\ FilterDataByOrganizer(detailed_data, site) = <<>>)
               => io.store_writes = 0
        /\ (pc = "done" /\ FilterDataByOrganizer(detailed_data, site) # <<>>)
               => io.store_writes = 1 /\ io.store_reads = 1

\* C21: the record list the listing stage hands to detect_new_data holds no
\* two records with the same nid, whichever path produced it.
ListingHasNoRepeatedNid ==
    ListingStageOver =>
        \A i, j \in 1..Len(list_data) :
            (i < j /\ Truthy(list_data[i].nid)) => list_data[i].nid # list_data[j].nid

\* C22: in a run with auto_pagination each listing page is fetched at most
\* once, in ascending order of the page numbers, and no more fetches are
\* issued than min(total_pages, max_pages).
ListingPagesFetchedOnceInOrder ==
    (call.fn = "monitor_site" /\ site.auto_pagination) =>
        /\ \A i, j \in 1..Len(io.page_log) : i < j => io.page_log[i] < io.page_log[j]
        /\ io.page_fetches <= Min2(SitePages(site), DefaultMaxPages)

-----------------------------------------------------------------------------
(* Claims about fetch_detail_page                                          *)

DetailReturned == call.fn = "fetch_detail_page" /\ ret.done

DetailAllOrNothing ==
    call.fn = "fetch_detail_page" =>
        /\ attempt <= MaxRetries
        /\ io.detail_fetches = attempt
        /\ ~ret.done => detailed_data = <<>>
        /\ ret.done =>
              /\ pc = "exhausted" => attempt = MaxRetries /\ ret.val = <<>>
              /\ call.item.title \in {None, "", " "} => ret.val = <<>>
              /\ detailed_data = ret.val
              /\ \A k \in 1..Len(detailed_data) : Truthy(detailed_data[k].name)

\* C14: fetch_detail_page makes at most max_retries fetch attempts and
\* returns; no attempt follows the one that fetched and parsed; when every
\* attempt failed or the title is empty it returns nothing, and what
\* monitor_site keeps for the store always has a title.
DetailRetriesBoundedTitleOrNothing ==
    /\ []DetailAllOrNothing
    /\ [][io'.detail_fetches > io.detail_fetches => pc = "attempting" /\ ~ret.done]_vars
    /\ <>DetailReturned

DetailGaveUpAfterAllRetries ==
    /\ DetailReturned
    /\ pc = "exhausted"
    /\ io.detail_fetches = MaxRetries
    /\ Truthy(call.item.title)
    /\ detailed_data = <<>>

-----------------------------------------------------------------------------
(* Claims about _generate_page_urls                                        *)

UrlsReturned == call.fn = "_generate_page_urls" /\ ret.done

HasKey(query, key) == \E i \in 1..Len(query) : query[i].k = key

\* the decoded values a query gives for a key
ValuesOf(query, key) == {Unquote(query[i].v) : i \in {j \in 1..Len(query) : query[j].k = key}}

\* the page a generated URL asks for: the number of its page parameter, page 1
\* when it has none
AsksForPage(url, page) ==
    LET numbered == {i \in 1..Len(url.query) : url.query[i].k # "spid"}
    IN IF numbered = {} THEN page = 1
       ELSE \A i \in numbered : url.query[i].v = ToStr(page)

UrlsInOrderOnOriginalBase ==
    /\ Len(ret.val) = call.total_pages
    /\ \A i \in 1..Len(ret.val) :
          /\ ret.val[i].base = call.base_url.base
          /\ AsksForPage(ret.val[i], i)

\* C6 as stated: total_pages URLs, the i-th for page i, on the original base,
\* and whenever the original URL carries a spid parameter every generated URL
\* carries spid with the same value.
UrlsKeepAnySpid ==
    UrlsReturned =>
        /\ UrlsInOrderOnOriginalBase
        /\ HasKey(call.base_url.query, "spid") =>
              \A i \in 1..Len(ret.val) :
                  /\ ValuesOf(ret.val[i].query, "spid") # {}
                  /\ ValuesOf(ret.val[i].query, "spid") \subseteq
                         ValuesOf(call.base_url.query, "spid")
                  /\ Cardinality(ValuesOf(ret.val[i].query, "spid")) = 1

\* C6 amended: total_pages URLs, the i-th for page i, on the original base, and
\* whenever the original URL carries a spid parameter with a non-empty value,
\* every generated URL carries spid with the first such value.
UrlsKeepNonEmptySpid ==
    UrlsReturned =>
        /\ UrlsInOrderOnOriginalBase
        /\ \A i \in 1..Len(ret.val) :
              LET nonblank == {j \in 1..Len(call.base_url.query) :
                                  /\ call.base_url.query[j].k = "spid"
                                  /\ call.base_url.query[j].v # ""}
              IN nonblank # {} =>
                    ValuesOf(ret.val[i].query, "spid") =
                        {Unquote(call.base_url.query[
                            CHOOSE j \in nonblank : \A m \in nonblank : j <= m].v)}

\* URLs were generated for several pages of an original URL whose spid is
\* percent-encoded and follows another parameter
UrlsGeneratedWithSpid ==
    /\ UrlsReturned
    /\ call.total_pages >= 3
    /\ Len(call.base_url.query) = 2
    /\ call.base_url.query[1].k = "cat"
    /\ call.base_url.query[2] = [k |-> "spid", v |-> "%58YZ"]
    /\ Len(ret.val) = 3

\* C7: the URL of page 1 carries no page-number parameter, only the spid of
\* the original URL, whether or not the original URL has one.
FirstPageUrlHasOnlySpid ==
    UrlsReturned =>
        \A i \in 1..Len(ret.val[1].query) : ret.val[1].query[i].k = "spid"

\* C8: the URL of every page p >= 2 sets the parameter named page_param to p,
\* page_param being the caller's override when given, else the inferred name.
LaterPagesUseResolvedPageParam ==
    UrlsReturned =>
        \A p \in 2..Len(ret.val) :
            \E i \in 1..Len(ret.val[p].query) :
                ret.val[p].query[i] =
                    [k |-> PageParam(call.pagination_config, call.pagination_info),
                     v |-> ToStr(p)]

-----------------------------------------------------------------------------
(* Claims about _extract_total_pages_from_pagination                       *)

TotalPagesReturned == call.fn = "_extract_total_pages_from_pagination" /\ ret.done

FoundPageNumbers(page) ==
    LinkPageNumbers(page) \cup ContainerPageNumbers(page) \cup LastLinkPageNumbers(page)

TotalPagesExamples ==
    /\ (call.soup.anchors = <<[href |-> [k |-> "pg", n |-> 5], text |-> <<"w">>]>>
            /\ ~call.soup.container.found) => ret.val = 5
    /\ (call.soup.anchors = <<>> /\ call.soup.container.text = TotalOfThree)
            => ret.val = 3

\* C9 as stated: the total is the maximum of 1 and every page number the three
\* signals found; it is 2 if no number was found and a next-page control
\* exists; it is never below 1; pg=5 alone gives 5 and '共 3 頁' gives 3.
TotalPagesIsMaxUnlessNothingFound ==
    TotalPagesReturned =>
        /\ ret.val >= 1
        /\ TotalPagesExamples
        /\ IF FoundPageNumbers(call.soup) = {} /\ HasNextPage(call.soup)
           THEN ret.val = 2
           ELSE ret.val = SetMax(FoundPageNumbers(call.soup) \cup {1}, 1)

\* C9 amended: the total is the maximum of 1 and every page number the three
\* signals found, except that it is 2 when that maximum is 1 and a next-page
\* control exists; it is never below 1; pg=5 alone gives 5, '共 3 頁' gives 3.
TotalPagesIsMaxOrTwoWithNext ==
    TotalPagesReturned =>
        /\ ret.val >= 1
        /\ TotalPagesExamples
        /\ IF SetMax(FoundPageNumbers(call.soup) \cup {1}, 1) = 1 /\ HasNextPage(call.soup)
           THEN ret.val = 2
           ELSE ret.val = SetMax(FoundPageNumbers(call.soup) \cup {1}, 1)

\* a page with a link to page 5, a next-page control and a container saying
\* '共 3 頁' has been analysed
TotalPagesFromSeveralSignals ==
    /\ TotalPagesReturned
    /\ call.soup.container.text = TotalOfThree
    /\ 5 \in LinkPageNumbers(call.soup)
    /\ HasNextPage(call.soup)
    /\ ret.val = 5

-----------------------------------------------------------------------------
(* Claims about detect_pagination                                          *)

\* the page parameter the og:url or canonical hint of the page carries
HintPages(soup) ==
    (IF soup.og_url.present /\ soup.og_url.has_content
     THEN HrefPageNumbers(soup.og_url.content) ELSE {})
    \cup (IF soup.canonical.present THEN HrefPageNumbers(soup.canonical.href) ELSE {})

\* the numbers the numeric indicators of the page show
IndicatorPages(soup) ==
    {IndicatorPage(<<soup.indicators[i]>>) :
        i \in {j \in 1..Len(soup.indicators) : IsDigitText(Strip(soup.indicators[j]))}}

\* C19: whatever hints the page has, detect_pagination returns without
\* raising, with total_pages >= 1 and current_page >= 1, the current page
\* being the page parameter of a hint, else a numeric indicator, else 1.
DetectPaginationNeverRaises ==
    (call.fn = "detect_pagination" /\ ret.done) =>
        /\ ret.val.raised = None
        /\ ret.val.total_pages >= 1
        /\ ret.val.current_page >= 1
        /\ IF HintPages(call.soup) \ {0} # {}
           THEN ret.val.current_page \in HintPages(call.soup)
           ELSE IF HintPages(call.soup) = {} /\ IndicatorPages(call.soup) \ {0} # {}
           THEN ret.val.current_page \in IndicatorPages(call.soup)
           ELSE HintPages(call.soup) = {} /\ IndicatorPages(call.soup) = {}
                    => ret.val.current_page = 1

-----------------------------------------------------------------------------
(* Claims about parse and the extractors                                   *)

Range(seq) == {seq[i] : i \in 1..Len(seq)}

\* the strings that are empty after trimming
BlankStrings == {Str(t) : t \in SeqUpTo({"sp"}, 3)}

ParsedRecords ==
    IF call.fn = "parse" THEN Range(Flatten(ret.val.page_data)) ELSE {}

\* C10: no record whose title is empty after trimming is in the output of
\* parse, in table mode or general mode, whatever else the record carries.
ParseEmitsNoBlankTitle ==
    \A rec \in ParsedRecords : rec.title # None /\ rec.title \notin BlankStrings

\* every page of a listing has been parsed whose first container has a blank
\* title text and a link with a nid, and that container gave no record
ParseDroppedBlankTitle ==
    /\ call.fn = "parse"
    /\ Len(ret.val.page_data) = NumPages(call.soup)
    /\ Len(call.soup) = 2
    /\ Len(Flatten(ret.val.page_data)) = 1
    /\ \/ /\ call.soup[1].cells # <<>>
          /\ call.soup[1].cells[1].a.present
          /\ call.soup[1].cells[1].a.text = <<"sp">>
          /\ call.soup[1].cells[1].a.href = "Dtl.aspx?nid=AB12"
       \/ /\ ~call.table_mode /\ ~IsTableMode(call.container_selector)
          /\ call.soup[1].elems =
                <<[tag |-> "h3", cls |-> "", id |-> "", href |-> None, text |-> <<"sp">>]>>

\* C5: every record the extractor emits has a page-local dedup key (its nid,
\* else a content hash), so in a multi-page run every extracted record
\* without a nid whose content differs from every earlier record is in the
\* aggregated output.
ExtractedRecordsKeyedAndKept ==
    (call.fn = "parse" /\ ret.done /\ NumPages(call.soup) >= 2) =>
        \A rec \in ParsedRecords :
            /\ Truthy(Identifier(rec))
            /\ ~Truthy(rec.nid) => rec \in Range(ret.val.unique_data)

-----------------------------------------------------------------------------
(* Claims about _auto_detect_fields and _extract_table_row                 *)

\* the selectors of a field in declared order, group after group
DeclaredOrder(field_name) == Flatten(SelectorGroups(field_name))

\* the positions, in declared order, of the selectors that select a
\* validating element of the sample
ValidatingAt(sample_container, field_name) ==
    {i \in 1..Len(DeclaredOrder(field_name)) :
        SelectorValidates(sample_container, DeclaredOrder(field_name)[i], field_name)}

\* C17: the selector recorded for a field is the first one in declared order
\* that selects a validating element of the sample; a field without such a
\* selector is not detected (title falling back to '*').
DetectedIsFirstValidating ==
    (call.fn = "_auto_detect_fields" /\ ret.done) =>
        \A f \in {"title", "link", "date"} :
            IF ValidatingAt(call.sample_container, f) = {}
            THEN ret.val[f] \in {None, "*"}
            ELSE \E i \in ValidatingAt(call.sample_container, f) :
                    /\ ret.val[f] = DeclaredOrder(f)[i]
                    /\ \A j \in ValidatingAt(call.sample_container, f) : i <= j

\* the date the second cell of a row holds, None when it holds none
SecondCellDate(cells) ==
    IF Len(cells) > 1 /\ Strip(GetTextStrip(cells[2].text)) # <<>>
                      /\ MatchIsoDate(Strip(GetTextStrip(cells[2].text)))
    THEN Str(Strip(GetTextStrip(cells[2].text)))
    ELSE None

\* C18: the date of a table row is the one of the hidden span of its first
\* cell when the span holds a date, and the one of the second cell only when
\* the span yields none.
RowDateFromHiddenSpanFirst ==
    (call.fn = "_extract_table_row" /\ ret.done /\ ret.val # <<>>) =>
        IF HiddenSpanDate(call.row.cells[1].hidden) # None
        THEN ret.val[1].date = HiddenSpanDate(call.row.cells[1].hidden)
        ELSE ret.val[1].date = SecondCellDate(call.row.cells)

-----------------------------------------------------------------------------
(* Claims about _deduplicate_data                                          *)

RECURSIVE IsSubsequence(_, _)
IsSubsequence(s, t) ==
    IF s = <<>> THEN TRUE
    ELSE IF t = <<>> THEN FALSE
    ELSE IF Head(s) = Head(t) THEN IsSubsequence(Tail(s), Tail(t))
    ELSE IsSubsequence(s, Tail(t))

FirstWithNid(data_list, nid) ==
    data_list[CHOOSE i \in 1..Len(data_list) :
                 /\ data_list[i].nid = nid
                 /\ \A j \in 1..(i - 1) : data_list[j].nid # nid]

\* C3: the output of _deduplicate_data is a subsequence of the input in which
\* every nid of the input is carried by exactly one record, the first record
\* of the input with that nid.
DedupKeepsFirstOfEachNid ==
    (call.fn = "_deduplicate_data" /\ ret.done) =>
        /\ IsSubsequence(ret.val, call.data_list)
        /\ \A n \in {call.data_list[i].nid : i \in 1..Len(call.data_list)} \ {None} :
              /\ Cardinality({k \in 1..Len(ret.val) : ret.val[k].nid = n}) = 1
              /\ \A k \in 1..Len(ret.val) :
                    ret.val[k].nid = n => ret.val[k] = FirstWithNid(call.data_list, n)

\* a list with two records of one nid and different titles has been deduplicated
DedupSawRepeatedNid ==
    /\ call.fn = "_deduplicate_data" /\ ret.done
    /\ \E i, j \in 1..Len(call.data_list) :
          /\ i < j
          /\ call.data_list[i].nid = call.data_list[j].nid
          /\ call.data_list[i].nid # None
          /\ call.data_list[i].title # call.data_list[j].title
    /\ Len(ret.val) < Len(call.data_list)

\* C4: no record that shares its nid or its content hash with a record kept
\* earlier is in the output of _deduplicate_data.
DedupDropsSharedNidOrHash ==
    (call.fn = "_deduplicate_data" /\ ret.done) =>
        \A i, j \in 1..Len(ret.val) :
            i < j =>
                /\ ~(ret.val[i].nid = ret.val[j].nid /\ ret.val[i].nid # None)
                /\ ~(ret.val[i].hash = ret.val[j].hash /\ ret.val[i].hash # None)

=============================================================================
